---- MODULE Spec2Model ----
(***************************************************************************)
(* Swap event collector (skills/trading/scripts/collectors/                *)
(* swap-collector.py): checkpointed retrieval of Swap logs of V3 pools,    *)
(* their persistence in daily files and the last_block.json checkpoint;    *)
(* the order-flow analysis of the stored events (analysis/order_flow.py),  *)
(* the training loader (training/data_loader.py) and the constructors of   *)
(* data_collector.py and inference/predictor.py.                           *)
(***************************************************************************)
EXTENDS Integers, Sequences, FiniteSets, TLC

VARIABLES
    last_block_file,  \* contents of last_block.json: pool name -> block
    swap_files,       \* per pool: the appended lines, each with its file date
    call,             \* observation of the most recent collect_pool call
    dpc,              \* daemon: position in run_daemon / collect_all
    todo,             \* daemon: pools not yet visited in the current cycle
    attempted,        \* daemon: the collect_pool calls of the current cycle, in order
    ppc,              \* collector processes: position of each in collect_pool
    plocal,           \* collector processes: locals of each
    pool_id,          \* analysis: the pool identifier handed to the constructor
    swap_dir,         \* analysis: the lines under the pool's swap directory
    utcnow,           \* analysis: the clock read by the loaders
    days,             \* analysis: the requested window, in days
    out,              \* analysis: observation of the most recent operation
    scanned,          \* every sub-range query made so far for the pool Watched, in order
    normalizer,       \* the StateNormalizer of the running process
    path,             \* the file that StateNormalizer.save writes
    restored,         \* a fresh StateNormalizer after load(path)
    seen              \* the observations handed to normalizer.update so far, in order

vars == <<last_block_file, swap_files, call, dpc, todo, attempted, ppc, plocal,
          pool_id, swap_dir, utcnow, days, out, scanned,
          normalizer, path, restored, seen>>

collector == <<last_block_file, swap_files, call, dpc, todo, attempted, ppc, plocal>>

analysis == <<pool_id, swap_dir, utcnow, days, out>>

history == <<scanned>>

learner == <<normalizer, path, restored, seen>>

\* no object, no file
NoObject == [state_dim |-> -1]

----------------------------------------------------------------------------
(* Bounds of the model *)

MaxHead == 50        \* no chain head beyond MaxHead is observed
DayLen == 20         \* blocks (time units) per UTC calendar day
MaxLines == 3        \* lines per pool that concurrent collectors may store

(* Program constants *)

BATCH_SIZE == 25

\* config['pools'] of pools.json, in file order
ConfigPools ==
    << [name |-> "p1", enabled |-> TRUE],
       [name |-> "p2", enabled |-> TRUE],
       [name |-> "p3", enabled |-> FALSE] >>

get_enabled_pools == SelectSeq(ConfigPools, LAMBDA c : c.enabled)

Pools == {get_enabled_pools[i].name : i \in 1..Len(get_enabled_pools)}
\* w3.eth.block_number as the calls observe it: neighbouring heads, heads a
\* batch or more apart, in any order (a node may lag behind an earlier answer)
Heads == {h \in 1..MaxHead : h % BATCH_SIZE <= 1}

\* the lookback_blocks a caller passes; the larger one stands for the default
Lookbacks == {3, 2 * BATCH_SIZE}
DefaultLookback == CHOOSE l \in Lookbacks : \A m \in Lookbacks : l >= m

----------------------------------------------------------------------------
(* The ledger: Swap logs of the pools, immutable once mined.  amount0 is    *)
(* the signed token0 amount of the event.                                   *)

ChainLogs ==
    { [address |-> "p1", blockNumber |-> 2,  logIndex |-> 0, transactionHash |-> 20,  amount0 |-> 0 - 1],
      [address |-> "p1", blockNumber |-> 26, logIndex |-> 0, transactionHash |-> 260, amount0 |-> 0],
      [address |-> "p1", blockNumber |-> 26, logIndex |-> 1, transactionHash |-> 260, amount0 |-> 1],
      [address |-> "p2", blockNumber |-> 19, logIndex |-> 0, transactionHash |-> 190, amount0 |-> 1] }

\* block['timestamp'] of w3.eth.get_block: one time unit per block
BlockTimestamp(b) == b

\* the calendar day of datetime.utcfromtimestamp(ts)
DayOf(ts) == ts \div DayLen

\* datetime.utcfromtimestamp(ts).isoformat(): calendar day and time of day
IsoFormat(ts) == [day |-> ts \div DayLen, tod |-> ts % DayLen]

Min(a, b) == IF a < b THEN a ELSE b

\* order of logs inside one eth_getLogs answer
LogBefore(a, b) ==
    \/ a.blockNumber < b.blockNumber
    \/ a.blockNumber = b.blockNumber /\ a.logIndex < b.logIndex

RECURSIVE SortLogs(_)
SortLogs(S) ==
    IF S = {} THEN << >>
    ELSE LET m == CHOOSE x \in S : \A y \in S \ {x} : LogBefore(x, y)
         IN  <<m>> \o SortLogs(S \ {m})

\* w3.eth.get_logs({address, topics, fromBlock, toBlock})
get_logs(address, fromBlock, toBlock) ==
    SortLogs({l \in ChainLogs : /\ l.address = address
                                /\ l.blockNumber >= fromBlock
                                /\ l.blockNumber <= toBlock})

----------------------------------------------------------------------------
(* Checkpoint store *)

get_last_block(file, pool_name) ==
    IF pool_name \in DOMAIN file THEN file[pool_name] ELSE 0

\* mutant: the mapping read from the file is dropped, only the own entry is written
save_last_block_OwnEntryOnly(file, pool_name, block) ==
    [k \in {pool_name} |-> block]

save_last_block(file, pool_name, block) ==
    [k \in (DOMAIN file) \cup {pool_name} |->
        IF k = pool_name THEN block ELSE file[k]]

----------------------------------------------------------------------------
(* get_swaps *)

\* mutant: batch_end is batch_start + BATCH_SIZE, one block into the next batch
RECURSIVE Batches_EndInclusive(_, _)
Batches_EndInclusive(batch_start, to_block) ==
    IF batch_start > to_block THEN << >>
    ELSE <<[start |-> batch_start,
            end   |-> Min(batch_start + BATCH_SIZE, to_block)]>>
         \o Batches_EndInclusive(batch_start + BATCH_SIZE, to_block)

\* range(from_block, to_block + 1, BATCH_SIZE) with batch_end
RECURSIVE Batches(_, _)
Batches(batch_start, to_block) ==
    IF batch_start > to_block THEN << >>
    ELSE <<[start |-> batch_start,
            end   |-> Min(batch_start + BATCH_SIZE - 1, to_block)]>>
         \o Batches(batch_start + BATCH_SIZE, to_block)

\* mutant: the first failed batch ends the loop (break instead of continue)
RECURSIVE FetchLogs_Break(_, _, _, _)
FetchLogs_Break(address, batches, failed, i) ==
    IF i > Len(batches) \/ i \in failed THEN << >>
    ELSE get_logs(address, batches[i].start, batches[i].end)
         \o FetchLogs_Break(address, batches, failed, i + 1)

\* the logs gathered by the batch loop; failed = indices of the batches
\* whose query raised
RECURSIVE FetchLogs(_, _, _, _)
FetchLogs(address, batches, failed, i) ==
    IF i > Len(batches) THEN << >>
    ELSE (IF i \in failed THEN << >>
          ELSE get_logs(address, batches[i].start, batches[i].end))
         \o FetchLogs(address, batches, failed, i + 1)

Direction(amount0) == IF amount0 > 0 THEN "sell_token0" ELSE "buy_token0"

\* the swap dict built from one log
DecodeSwap(log) ==
    [block     |-> log.blockNumber,
     tx_hash   |-> log.transactionHash,
     log_index |-> log.logIndex,
     timestamp |-> BlockTimestamp(log.blockNumber),
     datetime  |-> IsoFormat(BlockTimestamp(log.blockNumber)),
     amount0   |-> log.amount0,
     direction |-> Direction(log.amount0)]

\* the decode loop; undecodable = logs whose decoding or block lookup raises
RECURSIVE DecodeLogs(_, _)
DecodeLogs(logs, undecodable) ==
    IF logs = << >> THEN << >>
    ELSE (IF Head(logs) \in undecodable THEN << >>
          ELSE <<DecodeSwap(Head(logs))>>)
         \o DecodeLogs(Tail(logs), undecodable)

get_swaps(pool_address, from_block, to_block, failed, undecodable) ==
    DecodeLogs(FetchLogs(pool_address, Batches(from_block, to_block), failed, 1),
               undecodable)

----------------------------------------------------------------------------------------------------------------------------------------------
(* collect_pool *)

NoCall == [pool |-> "none"]

\* mutant: the checkpoint is not consulted
FromBlock_IgnoreCheckpoint(last_block, current_block, lookback_blocks) ==
    current_block - lookback_blocks

\* mutant: resumes two blocks after the checkpoint
FromBlock_SkipOne(last_block, current_block, lookback_blocks) ==
    IF last_block = 0 THEN current_block - lookback_blocks
    ELSE last_block + 2

\* mutant: resumes at the checkpoint block itself
FromBlock_Inclusive(last_block, current_block, lookback_blocks) ==
    IF last_block = 0 THEN current_block - lookback_blocks
    ELSE last_block

\* mutant: a first sync scans the whole history
FromBlock_FullHistory(last_block, current_block, lookback_blocks) ==
    IF last_block = 0 THEN 0
    ELSE last_block + 1

FromBlock(last_block, current_block, lookback_blocks) ==
    IF last_block = 0 THEN current_block - lookback_blocks
    ELSE last_block + 1

\* mutant: the early return is missing
NothingToScan_Never(from_block, current_block) == FALSE

\* mutant: the early return compares strictly
NothingToScan_Strict(from_block, current_block) == from_block > current_block

NothingToScan(from_block, current_block) == from_block >= current_block

\* the lines written to the daily file: one per swap, under date_str
DailyLines(swaps, date_str) ==
    [i \in 1..Len(swaps) |-> [date |-> date_str, swap |-> swaps[i]]]

\* what the batch loop asked the ledger, in order
QueryTrace(batches, failed) ==
    [i \in 1..Len(batches) |->
        [start |-> batches[i].start, end |-> batches[i].end, ok |-> i \notin failed]]

\* datetime.utcnow().strftime('%Y-%m-%d') of a call that runs while the head
\* block is the latest one: the calendar day of the head block
UtcToday(current_block) == DayOf(BlockTimestamp(current_block))

\* the logs whose decoding may raise in one call: none, or one of those fetched
Undecodable(logs) == {{}} \cup {{logs[i]} : i \in 1..Len(logs)}

\* what a call observed and did; lookback_blocks is kept when it was used
CallRecord(name, current_block, lookback_blocks, from_block, queries, undecodable, returned, saved) ==
    [pool |-> name, current_block |-> current_block,
     had_checkpoint |-> name \in DOMAIN last_block_file,
     last_block |-> get_last_block(last_block_file, name),
     lookback_blocks |-> IF get_last_block(last_block_file, name) = 0
                         THEN lookback_blocks ELSE 0,
     from_block |-> from_block, queries |-> queries,
     undecodable |-> undecodable, returned |-> returned, saved |-> saved]

collect_pool(name, current_block, lookback_blocks) ==
    LET last_block == get_last_block(last_block_file, name)
        from_block == FromBlock(last_block, current_block, lookback_blocks)
        batches    == Batches(from_block, current_block)
    IN  IF NothingToScan(from_block, current_block)
        THEN /\ call' = CallRecord(name, current_block, lookback_blocks,
                                   from_block, << >>, {}, 0, FALSE)
             /\ UNCHANGED <<last_block_file, swap_files>>
        ELSE \E failed \in SUBSET (1..Len(batches)) :
             \E undecodable \in Undecodable(FetchLogs(name, batches, failed, 1)) :
               LET swaps == get_swaps(name, from_block, current_block,
                                      failed, undecodable)
                   lines == DailyLines(swaps, UtcToday(current_block))
               IN  /\ swap_files' = [swap_files EXCEPT ![name] = @ \o lines]
                   /\ last_block_file' =
                          save_last_block(last_block_file, name, current_block)
                   /\ call' = CallRecord(name, current_block, lookback_blocks,
                                         from_block, QueryTrace(batches, failed),
                                         undecodable, Len(swaps), TRUE)

CollectPool ==
    \E name \in Pools, current_block \in Heads, lookback_blocks \in Lookbacks :
        /\ collect_pool(name, current_block, lookback_blocks)
        /\ UNCHANGED <<dpc, todo, attempted, ppc, plocal, analysis, history, learner>>

----------------------------------------------------------------------------
Init ==
    /\ last_block_file = << >>
    /\ swap_files = [p \in Pools |-> << >>]
    /\ call = NoCall
    /\ dpc = "idle" /\ todo = << >> /\ attempted = << >>
    /\ ppc = [p \in Pools |-> "idle"]
    /\ plocal = [p \in Pools |-> NoCall]
    /\ pool_id = "none" /\ swap_dir = << >> /\ utcnow = 0 /\ days = 0
    /\ out = [op |-> "none"]
    /\ scanned = << >>
    /\ normalizer = NoObject /\ path = NoObject /\ restored = NoObject /\ seen = << >>

Next == CollectPool

Spec == Init /\ [][Next]_vars

\* the pool whose queries are kept: the one with events in two sub-ranges
Watched == "p1"

\* the successive calls on the pool Watched, the queries of each kept
CollectPoolLogged ==
    \E current_block \in Heads, lookback_blocks \in Lookbacks :
        /\ collect_pool(Watched, current_block, lookback_blocks)
        /\ scanned' = scanned \o call'.queries
        /\ UNCHANGED <<dpc, todo, attempted, ppc, plocal, analysis, learner>>

NextHistory == CollectPoolLogged

SpecHistory == Init /\ [][NextHistory]_vars

----------------------------------------------------------------------------
(* collect_all and run_daemon *)

\* a collect_pool call that raised before it changed anything (the ledger
\* did not answer block_number)
RaisedCall(name) == [pool |-> name, raised |-> TRUE]

\* mutant: an exception of one pool leaves the loop over the pools
RestAfterRaise_Abort(pools) == << >>

\* the pools the loop of collect_all still visits after one pool raised
RestAfterRaise(pools) == Tail(pools)

\* run_daemon enters collect_all
D_CollectAll ==
    /\ dpc = "idle"
    /\ dpc' = "loop"
    /\ todo' = [i \in 1..Len(get_enabled_pools) |-> get_enabled_pools[i].name]
    /\ attempted' = << >>
    /\ UNCHANGED <<last_block_file, swap_files, call, ppc, plocal, analysis, history, learner>>

\* one iteration of the loop: collect_pool returns
D_PoolCollected ==
    /\ dpc = "loop" /\ todo # << >>
    /\ \E current_block \in Heads :
           collect_pool(Head(todo), current_block, DefaultLookback)
    /\ attempted' = Append(attempted, [name |-> Head(todo), raised |-> FALSE])
    /\ todo' = Tail(todo)
    /\ UNCHANGED <<dpc, ppc, plocal, analysis, history, learner>>

\* one iteration of the loop: collect_pool raises, the except clause prints
D_PoolRaised ==
    /\ dpc = "loop" /\ todo # << >>
    /\ call' = RaisedCall(Head(todo))
    /\ attempted' = Append(attempted, [name |-> Head(todo), raised |-> TRUE])
    /\ todo' = RestAfterRaise(todo)
    /\ UNCHANGED <<last_block_file, swap_files, dpc, ppc, plocal, analysis, history, learner>>

\* collect_all returns, run_daemon sleeps
D_Sleep ==
    /\ dpc = "loop" /\ todo = << >>
    /\ dpc' = "sleep"
    /\ UNCHANGED <<last_block_file, swap_files, call, todo, attempted, ppc, plocal, analysis, history, learner>>

\* the sleep ends, the while loop goes round
D_Wake ==
    /\ dpc = "sleep"
    /\ dpc' = "idle"
    /\ attempted' = << >>
    /\ UNCHANGED <<last_block_file, swap_files, call, todo, ppc, plocal, analysis, history, learner>>

NextDaemon == D_CollectAll \/ D_PoolCollected \/ D_PoolRaised \/ D_Sleep \/ D_Wake

\* the daemon's loop never ends by itself and every step of it terminates
SpecDaemon == Init /\ [][NextDaemon]_vars /\ WF_vars(NextDaemon)

----------------------------------------------------------------------------
(* Collectors in separate processes, one per pool: each runs collect_pool   *)
(* on its own pool; the steps are the places where a process reads or       *)
(* writes a file.                                                           *)

\* block_number and get_last_block are read; the call goes on unless it
\* returns 0 at once
P_Begin(p) ==
    /\ ppc[p] = "idle"
    /\ \E current_block \in Heads, lookback_blocks \in Lookbacks :
         LET from_block == FromBlock(get_last_block(last_block_file, p),
                                     current_block, lookback_blocks)
         IN  /\ ~NothingToScan(from_block, current_block)
             /\ plocal' = [plocal EXCEPT ![p] =
                             [pool |-> p, current_block |-> current_block,
                              from_block |-> from_block]]
    /\ ppc' = [ppc EXCEPT ![p] = "scan"]
    /\ UNCHANGED <<last_block_file, swap_files, call, dpc, todo, attempted, analysis, history, learner>>

\* get_swaps and the append to the daily file
P_Append(p) ==
    /\ ppc[p] = "scan"
    /\ LET current_block == plocal[p].current_block
           batches == Batches(plocal[p].from_block, current_block)
       IN  \E failed \in SUBSET (1..Len(batches)) :
           \E undecodable \in Undecodable(FetchLogs(p, batches, failed, 1)) :
             LET swaps == get_swaps(p, plocal[p].from_block, current_block,
                                    failed, undecodable)
             IN  /\ Len(swap_files[p]) + Len(swaps) <= MaxLines
                 /\ swap_files' = [swap_files EXCEPT ![p] =
                        @ \o DailyLines(swaps, UtcToday(current_block))]
    /\ ppc' = [ppc EXCEPT ![p] = "save"]
    /\ UNCHANGED <<last_block_file, call, plocal, dpc, todo, attempted, analysis, history, learner>>

\* save_last_block: json.load of the whole mapping
P_SaveRead(p) ==
    /\ ppc[p] = "save"
    /\ plocal' = [plocal EXCEPT ![p] =
                    [pool |-> p, current_block |-> plocal[p].current_block,
                     data |-> last_block_file]]
    /\ ppc' = [ppc EXCEPT ![p] = "write"]
    /\ UNCHANGED <<last_block_file, swap_files, call, dpc, todo, attempted, analysis, history, learner>>

\* save_last_block: data[pool_name] = block and json.dump of the mapping
P_SaveWrite(p) ==
    /\ ppc[p] = "write"
    /\ last_block_file' =
           save_last_block(plocal[p].data, p, plocal[p].current_block)
    /\ plocal' = [plocal EXCEPT ![p] = NoCall]
    /\ ppc' = [ppc EXCEPT ![p] = "idle"]
    /\ UNCHANGED <<swap_files, call, dpc, todo, attempted, analysis, history, learner>>

NextProcs ==
    \E p \in Pools : P_Begin(p) \/ P_Append(p) \/ P_SaveRead(p) \/ P_SaveWrite(p)

SpecProcs == Init /\ [][NextProcs]_vars

\* the process is terminated from outside while its call is in flight:
\* nothing written so far is undone, the locals are gone
P_Kill(p) ==
    /\ ppc[p] # "idle"
    /\ ppc' = [ppc EXCEPT ![p] = "idle"]
    /\ plocal' = [plocal EXCEPT ![p] = NoCall]
    /\ UNCHANGED <<last_block_file, swap_files, call, dpc, todo, attempted, analysis, history, learner>>

\* one collector, on the pool Watched, that may be terminated and started again
NextKill ==
    \/ P_Begin(Watched) \/ P_Append(Watched)
    \/ P_SaveRead(Watched) \/ P_SaveWrite(Watched)
    \/ P_Kill(Watched)

SpecKill == Init /\ [][NextKill]_vars

----------------------------------------------------------------------------
(* Properties of the collector *)

Checkpoint(p) == get_last_block(last_block_file, p)

\* the lines the most recent call appended to its pool's files
CallLines ==
    LET f == swap_files[call.pool]
    IN  SubSeq(f, Len(f) - call.returned + 1, Len(f))

LineKey(line) == <<line.swap.tx_hash, line.swap.log_index>>

\* (block, log index) of line a is not after that of line b
NotAfter(a, b) ==
    \/ a.swap.block < b.swap.block
    \/ a.swap.block = b.swap.block /\ a.swap.log_index <= b.swap.log_index

\* C1: across collect_pool calls, with any head and any failed sub-range
\* query, the stored checkpoint of every pool never decreases.
C1_CheckpointNeverDecreases ==
    [][\A p \in Pools :
          get_last_block(last_block_file', p) >= get_last_block(last_block_file, p)]_vars

\* a call saw a head below the stored checkpoint and the checkpoint was kept
C1_Witness ==
    /\ call.pool \in Pools
    /\ call.current_block < call.last_block
    /\ Checkpoint(call.pool) = call.last_block

\* C2: no two records of a pool's event log share the identity key
\* (pool, tx hash, log index).
C2_NoDuplicateRecords ==
    \A p \in Pools : \A i, j \in 1..Len(swap_files[p]) :
        i # j => LineKey(swap_files[p][i]) # LineKey(swap_files[p][j])

\* a pool's log filled by at least two calls, on different days
C2_Witness ==
    \E p \in Pools : \E i, j \in 1..Len(swap_files[p]) :
        /\ swap_files[p][i].date # swap_files[p][j].date
        /\ Len(swap_files[p]) = Cardinality({l \in ChainLogs : l.address = p})

\* C3: a call starts scanning at checkpoint + 1 when the pool has a
\* checkpoint, and at current head - lookback blocks when it has none; every
\* query lies in [from_block, current head], the first one starting at from_block.
C3_FromBlock ==
    call.pool \in Pools =>
        /\ call.had_checkpoint => call.from_block = call.last_block + 1
        /\ ~call.had_checkpoint =>
               call.from_block = call.current_block - call.lookback_blocks
        /\ call.queries # << >> => call.queries[1].start = call.from_block
        /\ \A i \in 1..Len(call.queries) :
               /\ call.queries[i].start >= call.from_block
               /\ call.queries[i].end <= call.current_block

\* a first sync that scanned only the look-back window, not from block 0
C3_Witness ==
    /\ call.pool \in Pools
    /\ ~call.had_checkpoint
    /\ call.from_block > 1
    /\ call.queries # << >>
    /\ call.queries[1].start = call.from_block

\* C4: a call with from_block >= current head returns 0, queries nothing,
\* appends nothing and leaves every pool's checkpoint unchanged.
C4_NoOp ==
    [][(call'.pool \in Pools /\ call'.from_block >= call'.current_block) =>
          /\ call'.returned = 0
          /\ call'.queries = << >>
          /\ swap_files' = swap_files
          /\ last_block_file' = last_block_file]_vars

\* a call whose from_block equals the head, with records already stored
C4_Witness ==
    /\ call.pool \in Pools
    /\ call.had_checkpoint
    /\ call.from_block = call.current_block
    /\ ~call.saved
    /\ swap_files[call.pool] # << >>

\* C5: a call with a failed sub-range query still queries every sub-range of
\* [from_block, head] once, in order; appends exactly the decodable events of
\* the sub-ranges that answered; and sets the pool's checkpoint to the head.
C5_FailedBatchSkipped ==
    (call.pool \in Pools /\ \E i \in 1..Len(call.queries) : ~call.queries[i].ok) =>
        /\ call.saved
        /\ Checkpoint(call.pool) = call.current_block
        /\ \A i \in 1..Len(call.queries) :
              /\ call.queries[i].start = call.from_block + (i - 1) * BATCH_SIZE
              /\ call.queries[i].end =
                    Min(call.queries[i].start + BATCH_SIZE - 1, call.current_block)
        /\ call.queries[Len(call.queries)].end = call.current_block
        /\ {LineKey(CallLines[k]) : k \in 1..call.returned} =
              { <<l.transactionHash, l.logIndex>> :
                  l \in { x \in ChainLogs :
                            /\ x.address = call.pool
                            /\ x \notin call.undecodable
                            /\ \E i \in 1..Len(call.queries) :
                                  /\ call.queries[i].ok
                                  /\ x.blockNumber >= call.queries[i].start
                                  /\ x.blockNumber <= call.queries[i].end } }
        /\ call.returned =
              Cardinality({LineKey(CallLines[k]) : k \in 1..call.returned})

\* the first of three sub-ranges failed and the events of a later one were stored
C5_Witness ==
    /\ call.pool \in Pools
    /\ Len(call.queries) = 3
    /\ ~call.queries[1].ok /\ call.queries[2].ok /\ call.queries[3].ok
    /\ call.returned = 2
    /\ Checkpoint(call.pool) = call.current_block

\* C6: every record in the file of (pool, day D) is an event whose block
\* timestamp falls on day D.
C6_FiledUnderEventDay ==
    \A p \in Pools : \A i \in 1..Len(swap_files[p]) :
        swap_files[p][i].date = DayOf(swap_files[p][i].swap.timestamp)

\* C7: the stored direction is buy_token0 iff amount0 < 0, else sell_token0.
C7_DirectionBySign ==
    \A p \in Pools : \A i \in 1..Len(swap_files[p]) :
        LET e == swap_files[p][i].swap
        IN  /\ e.direction = "buy_token0" <=> e.amount0 < 0
            /\ e.direction = "sell_token0" <=> e.amount0 >= 0

\* C8: the records of a pool are appended in non-decreasing
\* (block, log index) order.
C8_AppendOrder ==
    \A p \in Pools : \A i, j \in 1..Len(swap_files[p]) :
        i < j => NotAfter(swap_files[p][i], swap_files[p][j])

\* three records of one pool, two of one block, appended by different calls
C8_Witness ==
    \E p \in Pools :
        /\ Len(swap_files[p]) = 3
        /\ swap_files[p][2].swap.block = swap_files[p][3].swap.block
        /\ swap_files[p][1].date # swap_files[p][3].date

\* C9: with one collector process per pool, the save of one pool's
\* checkpoint leaves the stored checkpoint of every other pool as it was.
C9_OtherCheckpointsKept ==
    [][\A p \in Pools :
          (ppc[p] = "write" /\ ppc'[p] = "idle") =>
              \A q \in Pools \ {p} :
                  get_last_block(last_block_file', q) = get_last_block(last_block_file, q)]_vars

\* the names of the calls made so far in the current cycle
AttemptedNames == {attempted[i].name : i \in 1..Len(attempted)}

\* C10: in a collect_all cycle the enabled pools are visited one after
\* another in configuration order, a pool whose collect_pool raises does not
\* keep the remaining pools from being synced (when a cycle ends every enabled
\* pool has been attempted exactly once), and the daemon completes such cycles
\* again and again.
C10_EveryPoolEveryCycle ==
    /\ [](dpc = "loop" =>
            [i \in 1..Len(attempted) |-> attempted[i].name] \o todo
              = [i \in 1..Len(get_enabled_pools) |-> get_enabled_pools[i].name])
    /\ [](dpc = "sleep" => AttemptedNames = Pools /\ Len(attempted) = Cardinality(Pools))
    /\ []<>(dpc = "sleep")

\* a cycle in which the first pool raised and the second pool was synced and stored events
C10_Witness ==
    /\ dpc = "sleep"
    /\ Len(attempted) = 2
    /\ attempted[1].raised /\ ~attempted[2].raised
    /\ call.pool = attempted[2].name
    /\ call.saved /\ call.returned > 0

----------------------------------------------------------------------------
(***************************************************************************)
(* Order-flow analysis (skills/trading/scripts/analysis/order_flow.py),    *)
(* the training loader (training/data_loader.py) and the constructors      *)
(* that take a pool identifier.  A time unit is one hour here, so a        *)
(* stored datetime is the pair IsoFormat gives: a day and an hour of day.  *)
(***************************************************************************)

MaxStored == 3       \* lines under one pool's swap directory

\* a line the collector wrote whole; amounts are kept as the integers that
\* str() wrote and int() reads back
SwapLine(ts, recipient, amount0, amount1) ==
    [json |-> TRUE, timestamp |-> ts, datetime |-> IsoFormat(ts),
     recipient |-> recipient, amount0 |-> amount0, amount1 |-> amount1]

\* a line json.loads rejects: a write cut short, an empty line
Garbage == [json |-> FALSE]

\* datetime.fromisoformat, as a point on the clock's scale
fromisoformat(dt) == dt.day * DayLen + dt.tod

\* sorted(swap_dir.glob('*.jsonl')) read file by file: the lines by file
\* name, those of one file in the order they were appended
RECURSIVE ReadOrder(_, _)
ReadOrder(lines, dates) ==
    IF dates = {} THEN << >>
    ELSE LET d == CHOOSE x \in dates : \A y \in dates : x <= y
         IN  SelectSeq(lines, LAMBDA l : l.date = d) \o ReadOrder(lines, dates \ {d})

FileLines(dir) ==
    LET stored == ReadOrder(dir.lines, {dir.lines[i].date : i \in 1..Len(dir.lines)})
    IN  [i \in 1..Len(stored) |-> stored[i].line]

\* list.sort(key=lambda x: x['timestamp']): stable, ascending
RECURSIVE InsertByTimestamp(_, _)
InsertByTimestamp(sorted, x) ==
    IF sorted = << >> THEN <<x>>
    ELSE IF sorted[Len(sorted)].timestamp <= x.timestamp THEN Append(sorted, x)
    ELSE Append(InsertByTimestamp(SubSeq(sorted, 1, Len(sorted) - 1), x), sorted[Len(sorted)])

RECURSIVE SortByTimestamp(_)
SortByTimestamp(swaps) ==
    IF swaps = << >> THEN << >>
    ELSE InsertByTimestamp(SortByTimestamp(SubSeq(swaps, 1, Len(swaps) - 1)), swaps[Len(swaps)])

\* the read loop of OrderFlowAnalyzer.load_swaps: decoding and the window
\* test share one try, whose except continues with the next line
RECURSIVE ReadSwaps_Break(_, _, _)
ReadSwaps_Break(lines, cutoff, i) ==
    IF i > Len(lines) THEN << >>
    ELSE IF ~lines[i].json THEN << >>
    ELSE IF fromisoformat(lines[i].datetime) > cutoff
         THEN <<lines[i]>> \o ReadSwaps_Break(lines, cutoff, i + 1)
         ELSE ReadSwaps_Break(lines, cutoff, i + 1)

RECURSIVE ReadSwaps(_, _, _)
ReadSwaps(lines, cutoff, i) ==
    IF i > Len(lines) THEN << >>
    ELSE IF ~lines[i].json THEN ReadSwaps(lines, cutoff, i + 1)
    ELSE IF fromisoformat(lines[i].datetime) > cutoff
         THEN <<lines[i]>> \o ReadSwaps(lines, cutoff, i + 1)
         ELSE ReadSwaps(lines, cutoff, i + 1)

\* utcnow() - timedelta(days=days)
Cutoff(now, window_days) == now - window_days * DayLen

load_swaps_Unsorted(dir, now, window_days) ==
    IF ~dir.exists THEN << >>
    ELSE ReadSwaps(FileLines(dir), Cutoff(now, window_days), 1)

load_swaps(dir, now, window_days) ==
    IF ~dir.exists THEN << >>
    ELSE SortByTimestamp(ReadSwaps(FileLines(dir), Cutoff(now, window_days), 1))

\* DataLoader.load_swap_events: the try holds the decoding alone; the window
\* test and the sort follow the loop
load_swap_events(dir, now, window_days) ==
    IF ~dir.exists THEN << >>
    ELSE LET decoded == SelectSeq(FileLines(dir), LAMBDA l : l.json)
             cutoff == Cutoff(now, window_days)
         IN  SortByTimestamp(SelectSeq(decoded, LAMBDA s : fromisoformat(s.datetime) > cutoff))

----------------------------------------------------------------------------
(* analyze_wallet_activity and identify_whales *)

Abs(x) == IF x < 0 THEN -x ELSE x

Max(a, b) == IF a >= b THEN a ELSE b

\* a datetime not yet set
None == [day |-> -1, tod |-> -1]

\* the defaultdict's value for a wallet not seen before
NewWallet(address) ==
    [address |-> address, buy_count |-> 0, sell_count |-> 0,
     buy_volume_token0 |-> 0, sell_volume_token0 |-> 0,
     buy_volume_token1 |-> 0, sell_volume_token1 |-> 0,
     net_token0 |-> 0, net_token1 |-> 0,
     first_seen |-> None, last_seen |-> None]

\* the body of the loop over swaps, for the entry w of the swap's recipient;
\* the sign test that tells a buy from a sell is IsBuy
IsBuy_NonPositive(amt0) == amt0 <= 0

IsBuy(amt0) == amt0 < 0

AddSwap(w, swap) ==
    LET amt0 == swap.amount0
        amt1 == swap.amount1
        timed == [w EXCEPT !.first_seen = IF @ = None THEN swap.datetime ELSE @,
                           !.last_seen = swap.datetime]
        counted ==
            IF IsBuy(amt0)
            THEN [timed EXCEPT !.buy_count = @ + 1,
                               !.buy_volume_token0 = @ + Abs(amt0),
                               !.buy_volume_token1 = @ + Abs(amt1)]
            ELSE [timed EXCEPT !.sell_count = @ + 1,
                               !.sell_volume_token0 = @ + Abs(amt0),
                               !.sell_volume_token1 = @ + Abs(amt1)]
    IN  [counted EXCEPT !.net_token0 = @ + (-amt0), !.net_token1 = @ + (-amt1)]

\* the wallets dict, as its items in insertion order
RECURSIVE analyze_wallet_activity(_)
analyze_wallet_activity(swaps) ==
    IF swaps = << >> THEN << >>
    ELSE LET wallets == analyze_wallet_activity(SubSeq(swaps, 1, Len(swaps) - 1))
             swap == swaps[Len(swaps)]
             at == {i \in 1..Len(wallets) : wallets[i].address = swap.recipient}
         IN  IF at = {}
             THEN Append(wallets, AddSwap(NewWallet(swap.recipient), swap))
             ELSE [i \in 1..Len(wallets) |->
                      IF i \in at THEN AddSwap(wallets[i], swap) ELSE wallets[i]]

TotalVolume(data) == data.buy_volume_token0 + data.sell_volume_token0

\* volumes.sort(key=lambda x: x[1], reverse=True): stable, descending
RECURSIVE InsertByVolume(_, _)
InsertByVolume(sorted, x) ==
    IF sorted = << >> THEN <<x>>
    ELSE IF TotalVolume(sorted[Len(sorted)]) >= TotalVolume(x) THEN Append(sorted, x)
    ELSE Append(InsertByVolume(SubSeq(sorted, 1, Len(sorted) - 1), x), sorted[Len(sorted)])

RECURSIVE SortByVolume(_)
SortByVolume(volumes) ==
    IF volumes = << >> THEN << >>
    ELSE InsertByVolume(SortByVolume(SubSeq(volumes, 1, Len(volumes) - 1)), volumes[Len(volumes)])

Whale(data) ==
    [address |-> data.address, total_volume |-> TotalVolume(data),
     net_token0 |-> data.net_token0, net_token1 |-> data.net_token1,
     buy_count |-> data.buy_count, sell_count |-> data.sell_count,
     behavior |-> IF data.net_token0 > 0 THEN "ACCUMULATING"
                  ELSE IF data.net_token0 < 0 THEN "DISTRIBUTING" ELSE "NEUTRAL",
     first_seen |-> data.first_seen, last_seen |-> data.last_seen]

\* max(1, int(len(volumes) * threshold_pct / 100))
whale_count_RoundUp(n, threshold_pct) == Max(1, (n * threshold_pct + 99) \div 100)

whale_count(n, threshold_pct) == Max(1, (n * threshold_pct) \div 100)

identify_whales(wallet_activity, threshold_pct) ==
    IF wallet_activity = << >> THEN << >>
    ELSE LET volumes == SortByVolume(wallet_activity)
             taken == SubSeq(volumes, 1, Min(whale_count(Len(volumes), threshold_pct), Len(volumes)))
         IN  [i \in 1..Len(taken) |-> Whale(taken[i])]

----------------------------------------------------------------------------
(* compute_order_flow_metrics.  A float is kept as the exact fraction it     *)
(* stands for; round(x, 3) gives thousandths, as an integer.                 *)

RECENT_HOURS == 6

RECURSIVE Sum(_)
Sum(s) == IF s = << >> THEN 0 ELSE Sum(SubSeq(s, 1, Len(s) - 1)) + s[Len(s)]

Fraction(num, den) == [num |-> num, den |-> den]

\* round(x, 3) of the fraction x: the nearest thousandth, a tie to the even one
Round3(x) ==
    LET q == (1000 * Abs(x.num)) \div x.den
        r == (1000 * Abs(x.num)) % x.den
        m == IF 2 * r > x.den \/ (2 * r = x.den /\ q % 2 = 1) THEN q + 1 ELSE q
    IN  IF x.num < 0 THEN -m ELSE m

\* the empty dict
EmptyDict == << >>

\* dict.get(key, default)
Get(dict, key, default) == IF key \in DOMAIN dict THEN dict[key] ELSE default

BuyVolumes_Signed(swaps) ==
    [i \in 1..Len(swaps) |-> IF IsBuy(swaps[i].amount0) THEN swaps[i].amount0 ELSE 0]

BuyVolumes(swaps) ==
    [i \in 1..Len(swaps) |-> IF IsBuy(swaps[i].amount0) THEN Abs(swaps[i].amount0) ELSE 0]

SellVolumes(swaps) ==
    [i \in 1..Len(swaps) |-> IF IsBuy(swaps[i].amount0) THEN 0 ELSE Abs(swaps[i].amount0)]

\* buy/sell ratio, with its sentinels for an empty sell side
buy_sell_ratio_SentinelsSwapped(total_buy_volume, total_sell_volume) ==
    IF total_sell_volume > 0 THEN Fraction(total_buy_volume, total_sell_volume)
    ELSE IF total_buy_volume > 0 THEN Fraction(1, 1) ELSE Fraction(999, 1)

buy_sell_ratio(total_buy_volume, total_sell_volume) ==
    IF total_sell_volume > 0 THEN Fraction(total_buy_volume, total_sell_volume)
    ELSE IF total_buy_volume > 0 THEN Fraction(999, 1) ELSE Fraction(1, 1)

\* order flow imbalance; the same expression stands in compute_swap_volume
order_flow_imbalance_OverSell(buy_volume, sell_volume) ==
    IF sell_volume > 0
    THEN Fraction(buy_volume - sell_volume, sell_volume)
    ELSE Fraction(0, 1)

order_flow_imbalance(buy_volume, sell_volume) ==
    IF buy_volume + sell_volume > 0
    THEN Fraction(buy_volume - sell_volume, buy_volume + sell_volume)
    ELSE Fraction(0, 1)

\* sorted(hourly_flow.keys()): the hours that hold a swap, ascending
RECURSIVE SortHours(_)
SortHours(hours) ==
    IF hours = {} THEN << >>
    ELSE LET h == CHOOSE x \in hours : \A y \in hours : fromisoformat(x) >= fromisoformat(y)
         IN  Append(SortHours(hours \ {h}), h)

\* hourly_flow[h]['buy'] - hourly_flow[h]['sell']
HourNet(swaps, h) ==
    Sum([i \in 1..Len(swaps) |->
            IF swaps[i].datetime # h THEN 0
            ELSE IF IsBuy(swaps[i].amount0) THEN Abs(swaps[i].amount0)
            ELSE -Abs(swaps[i].amount0)])

\* how many hours sorted_hours[-6:] or sorted_hours[-len(sorted_hours)//2:]
\* takes from the end of n hours; -n // 2 rounds down, so the slice holds
\* the upper half, rounded up
RecentCount_RoundedDown(n) == IF n >= RECENT_HOURS THEN RECENT_HOURS ELSE n \div 2

RecentCount(n) == IF n >= RECENT_HOURS THEN RECENT_HOURS ELSE (n + 1) \div 2

\* how many hours sorted_hours[:-6] or sorted_hours[:len(sorted_hours)//2]
\* takes from the start
OlderCount(n) == IF n >= RECENT_HOURS THEN n - RECENT_HOURS ELSE n \div 2

trend_change(swaps) ==
    LET sorted_hours == SortHours({swaps[i].datetime : i \in 1..Len(swaps)})
        n == Len(sorted_hours)
        recent_hours == SubSeq(sorted_hours, n - RecentCount(n) + 1, n)
        older_hours == SubSeq(sorted_hours, 1, OlderCount(n))
        recent_net == Sum([i \in 1..Len(recent_hours) |-> HourNet(swaps, recent_hours[i])])
        older_net == Sum([i \in 1..Len(older_hours) |-> HourNet(swaps, older_hours[i])])
    IN  IF n < 2 THEN Fraction(0, 1)
        ELSE IF older_net # 0 THEN Fraction(recent_net - older_net, Abs(older_net))
        ELSE Fraction(IF recent_net > 0 THEN 1 ELSE IF recent_net < 0 THEN -1 ELSE 0, 1)

compute_order_flow_metrics(swaps) ==
    IF swaps = << >> THEN EmptyDict
    ELSE LET total_buy_volume == Sum(BuyVolumes(swaps))
             total_sell_volume == Sum(SellVolumes(swaps))
             ofi == order_flow_imbalance(total_buy_volume, total_sell_volume)
             trend == trend_change(swaps)
         IN  [total_buy_volume |-> total_buy_volume,
              total_sell_volume |-> total_sell_volume,
              net_flow |-> total_buy_volume - total_sell_volume,
              buy_count |-> Cardinality({i \in 1..Len(swaps) : IsBuy(swaps[i].amount0)}),
              sell_count |-> Cardinality({i \in 1..Len(swaps) : ~IsBuy(swaps[i].amount0)}),
              buy_sell_ratio |-> Round3(buy_sell_ratio(total_buy_volume, total_sell_volume)),
              order_flow_imbalance |-> Round3(ofi),
              trend_change |-> Round3(trend),
              market_direction |-> IF 10 * ofi.num > ofi.den THEN "BULLISH"
                                   ELSE IF 10 * ofi.num < -ofi.den THEN "BEARISH"
                                   ELSE "NEUTRAL",
              trend_signal |-> IF 5 * trend.num > trend.den THEN "ACCELERATING"
                               ELSE IF 5 * trend.num < -trend.den THEN "DECELERATING"
                               ELSE "STABLE"]

\* the net flow of the wallet that sorted(..., key=abs, reverse=True) puts
\* first: the largest in absolute value, the earliest seen among equals
WhaleNet(wallet_flows) ==
    IF wallet_flows = << >> THEN 0
    ELSE LET first == CHOOSE i \in 1..Len(wallet_flows) :
                 /\ \A j \in 1..Len(wallet_flows) :
                        Abs(wallet_flows[i].net_token0) >= Abs(wallet_flows[j].net_token0)
                 /\ \A j \in 1..(i - 1) :
                        Abs(wallet_flows[j].net_token0) < Abs(wallet_flows[i].net_token0)
         IN  wallet_flows[first].net_token0

\* DataLoader.compute_swap_volume, with its own window of hours
compute_swap_volume(swaps, now, hours) ==
    IF swaps = << >>
    THEN [volume_token0 |-> 0, volume_token1 |-> 0, swap_count |-> 0,
          buy_volume |-> 0, sell_volume |-> 0,
          order_flow_imbalance |-> Fraction(0, 1),
          whale_net_flow |-> 0, unique_wallets |-> 0]
    ELSE LET recent == SelectSeq(swaps, LAMBDA s : fromisoformat(s.datetime) > now - hours)
             buy_volume == Sum(BuyVolumes(recent))
             sell_volume == Sum(SellVolumes(recent))
         IN  [volume_token0 |-> Sum([i \in 1..Len(recent) |-> Abs(recent[i].amount0)]),
              volume_token1 |-> Sum([i \in 1..Len(recent) |-> Abs(recent[i].amount1)]),
              swap_count |-> Len(recent),
              buy_volume |-> buy_volume, sell_volume |-> sell_volume,
              order_flow_imbalance |-> order_flow_imbalance(buy_volume, sell_volume),
              whale_net_flow |-> WhaleNet(analyze_wallet_activity(recent)),
              unique_wallets |-> Len(analyze_wallet_activity(recent))]

----------------------------------------------------------------------------
(* detect_accumulation_distribution and generate_report *)

\* dt.strftime('%Y-%m-%d') + f"_{dt.hour // window_hours}"
WindowKey(dt, window_hours) == [day |-> dt.day, slot |-> dt.tod \div window_hours]

\* the if/elif chain over one window's volumes and counts; 1.5 x v is 3v / 2
ClassifyWindow_NonStrict(buy_vol, sell_vol, buy_count, sell_count) ==
    IF 2 * buy_vol >= 3 * sell_vol /\ buy_count > sell_count THEN "ACCUMULATION"
    ELSE IF 2 * sell_vol >= 3 * buy_vol /\ sell_count > buy_count THEN "DISTRIBUTION"
    ELSE IF buy_count > sell_count * 2 THEN "RETAIL_BUYING"
    ELSE IF sell_count > buy_count * 2 THEN "RETAIL_SELLING"
    ELSE "MIXED"

ClassifyWindow(buy_vol, sell_vol, buy_count, sell_count) ==
    IF 2 * buy_vol > 3 * sell_vol /\ buy_count > sell_count THEN "ACCUMULATION"
    ELSE IF 2 * sell_vol > 3 * buy_vol /\ sell_count > buy_count THEN "DISTRIBUTION"
    ELSE IF buy_count > sell_count * 2 THEN "RETAIL_BUYING"
    ELSE IF sell_count > buy_count * 2 THEN "RETAIL_SELLING"
    ELSE "MIXED"

\* sorted(windows.items()): the window keys ascending
RECURSIVE SortWindows(_)
SortWindows(keys) ==
    IF keys = {} THEN << >>
    ELSE LET k == CHOOSE x \in keys : \A y \in keys :
                     x.day > y.day \/ (x.day = y.day /\ x.slot >= y.slot)
         IN  Append(SortWindows(keys \ {k}), k)

WindowPattern(swaps, window_hours, key) ==
    LET inside == SelectSeq(swaps, LAMBDA s : WindowKey(s.datetime, window_hours) = key)
        buy_vol == Sum(BuyVolumes(inside))
        sell_vol == Sum(SellVolumes(inside))
        buy_count == Cardinality({i \in 1..Len(inside) : IsBuy(inside[i].amount0)})
        sell_count == Cardinality({i \in 1..Len(inside) : ~IsBuy(inside[i].amount0)})
    IN  [window |-> key, buy_volume |-> buy_vol, sell_volume |-> sell_vol,
         buy_count |-> buy_count, sell_count |-> sell_count,
         pattern |-> ClassifyWindow(buy_vol, sell_vol, buy_count, sell_count)]

\* max(pattern_counts.items(), key=count): the most frequent label, the one
\* met first among equals
DominantPattern(patterns) ==
    LET count(l) == Cardinality({i \in 1..Len(patterns) : patterns[i].pattern = l})
        first == CHOOSE i \in 1..Len(patterns) :
                     /\ \A j \in 1..Len(patterns) :
                            count(patterns[i].pattern) >= count(patterns[j].pattern)
                     /\ \A j \in 1..(i - 1) :
                            count(patterns[j].pattern) < count(patterns[i].pattern)
    IN  patterns[first].pattern

detect_accumulation_distribution(swaps, window_hours) ==
    IF swaps = << >> THEN EmptyDict
    ELSE LET keys == SortWindows({WindowKey(swaps[i].datetime, window_hours) : i \in 1..Len(swaps)})
             patterns == [i \in 1..Len(keys) |-> WindowPattern(swaps, window_hours, keys[i])]
             labels == {patterns[i].pattern : i \in 1..Len(patterns)}
         IN  [windows |-> patterns,
              pattern_summary |->
                  [l \in labels |-> Cardinality({i \in 1..Len(patterns) : patterns[i].pattern = l})],
              dominant_pattern |-> DominantPattern(patterns)]

\* the confidence of the prediction, from the imbalance the metrics report
\* (thousandths)
Confidence(metrics) ==
    LET reported == Get(metrics, "order_flow_imbalance", 0)
    IN  IF Abs(reported) > 300 THEN "HIGH"
        ELSE IF Abs(reported) > 150 THEN "MEDIUM" ELSE "LOW"

NoData == [error |-> "No swap data available"]

Report(pool, window_days, swaps) ==
    LET wallet_activity == analyze_wallet_activity(swaps)
        whales == identify_whales(wallet_activity, 10)
        metrics == compute_order_flow_metrics(swaps)
        patterns == detect_accumulation_distribution(swaps, DayLen)
    IN  [pool |-> pool, period_days |-> window_days, total_swaps |-> Len(swaps),
         unique_wallets |-> Len(wallet_activity),
         metrics |-> metrics,
         whales |-> SubSeq(whales, 1, Min(5, Len(whales))),
         patterns |-> patterns,
         prediction |->
             [direction |-> Get(metrics, "market_direction", "UNKNOWN"),
              confidence |-> Confidence(metrics),
              signal |-> Get(metrics, "trend_signal", "UNKNOWN"),
              whale_behavior |-> IF whales # << >> THEN whales[1].behavior ELSE "UNKNOWN"]]

generate_report_NoGuard(pool, dir, now, window_days) ==
    Report(pool, window_days, load_swaps(dir, now, window_days))

generate_report(pool, dir, now, window_days) ==
    LET swaps == load_swaps(dir, now, window_days)
    IN  IF swaps = << >> THEN NoData ELSE Report(pool, window_days, swaps)

----------------------------------------------------------------------------
(* Inputs of the analysis: what a swap directory may hold *)

\* the hour at which the loaders read the clock
Clock == 2 * DayLen + DayLen \div 2

\* the days a caller asks for
Windows == {1, 2}

SeqsUpTo(S, n) == UNION {[1..k -> S] : k \in 0..n}

\* the daily files, named by the collector's day of writing
FileDays == {DayOf(Clock) - 1, DayOf(Clock)}

\* events on either edge of the two windows and inside both, and a damaged line
LoadLines ==
    {Garbage} \cup
    {SwapLine(ts, "w1", -1, 1) : ts \in {Clock - 2 * DayLen, Clock - DayLen, Clock - 1}}

LoadDirs ==
    {[exists |-> TRUE, lines |-> ls] :
        ls \in SeqsUpTo([date : FileDays, line : LoadLines], MaxStored)}

NoDir == [exists |-> FALSE, lines |-> << >>]

\* a directory the collector has written on one day
OneFile(lines) ==
    [exists |-> TRUE,
     lines |-> [i \in 1..Len(lines) |-> [date |-> DayOf(Clock), line |-> lines[i]]]]

\* stored lines of any content, files and order, read in either window
InitLoad ==
    /\ pool_id = "p1"
    /\ swap_dir \in LoadDirs
    /\ days \in Windows

\* swaps of three wallets: a buy and a sell whose imbalance is just past three
\* tenths, a swap of amount 0, a small buy a day earlier and a buy exactly on
\* the cutoff of the one-day window
FlowLines ==
    { SwapLine(Clock - 1, "w1", -3251, 2),
      SwapLine(Clock - 2, "w2", 1749, -3),
      SwapLine(Clock - 2, "w1", 1749, -3),
      SwapLine(Clock - 3, "w3", 0, 2),
      SwapLine(Clock - DayLen + 1, "w2", -1, 2),
      SwapLine(Clock - DayLen, "w3", -3251, 2) }

InitFlow ==
    /\ pool_id = "p1"
    /\ \E lines \in SeqsUpTo(FlowLines, MaxStored) : swap_dir = OneFile(lines)
    /\ days \in Windows

MaxSame == 5         \* swaps of one amount and side within one window

Repeat(x, n) == [i \in 1..n |-> x]

\* windows of many swaps: n equal buys and one a unit larger against up to
\* three sells, and one large swap on either side; the sells fall in the same
\* window as the buys or in the window of the day before
InitPattern ==
    /\ pool_id = "p2"
    /\ days = 1
    /\ \E buys \in 0..MaxSame, more \in 0..1, large_buy \in 0..1,
          sells \in 0..2, less \in 0..1, large_sell \in 0..1, sell_ts \in {Clock - 1, Clock - DayLen + 1} :
          swap_dir = OneFile(
              Repeat(SwapLine(Clock - 1, "w1", -30, 2), buys)
              \o Repeat(SwapLine(Clock - 1, "w1", -31, 2), more)
              \o Repeat(SwapLine(Clock - 1, "w2", -200, 2), large_buy)
              \o Repeat(SwapLine(sell_ts, "w2", 33, -3), sells)
              \o Repeat(SwapLine(sell_ts, "w3", 34, -3), less)
              \o Repeat(SwapLine(sell_ts, "w3", 200, -3), large_sell))

MaxBuckets == 13     \* hours that hold a swap

\* one swap in each of the last n hours, the older the larger: buys only, or
\* buys and sells in turn, or a buy and a small sell in every hour, or large
\* buys after one sale of a single unit
TrendLines(n, shape) ==
    LET line(i) == SwapLine(Clock - i, "w1",
                            IF shape = "turns" /\ i % 2 = 0 THEN i
                            ELSE IF shape = "steep" THEN (IF i = 1 THEN 1 ELSE -500 * i)
                            ELSE -i, 2)
        plain == [i \in 1..n |-> line(i)]
    IN  IF shape = "pairs"
        THEN plain \o [i \in 1..n |-> SwapLine(Clock - i, "w2", 1, -3)]
        ELSE plain

InitTrend ==
    /\ pool_id = "p2"
    /\ days = 2
    /\ \E n \in 0..MaxBuckets, shape \in {"buys", "turns", "pairs", "steep"} :
          swap_dir = OneFile(TrendLines(n, shape))

\* a pool nothing was collected for: one the configuration does not name,
\* and one it names
InitNoDir ==
    /\ pool_id \in {"zz", "p3"}
    /\ swap_dir = NoDir
    /\ days \in Windows

----------------------------------------------------------------------------
(* Constructors that take a pool identifier *)

\* config['pools'] of pools.json and the POOLS table of data_collector.py
ConfigNames == {ConfigPools[i].name : i \in 1..Len(ConfigPools)}

POOLS == ConfigNames

\* DataCollector.__init__: the check, then the data directory
DataCollector(pool) ==
    IF pool \notin POOLS
    THEN [op |-> "DataCollector", raised |-> TRUE, error |-> "ValueError", data_dir |-> "untouched"]
    ELSE [op |-> "DataCollector", raised |-> FALSE, error |-> "none", data_dir |-> pool]

\* the files *_final_actor.pt that MODELS_DIR may hold, by the pool they
\* were trained for
ModelFiles == {"p1", "p2"}

\* TradingPredictor.__init__ with load_model: models are the files present,
\* any is the file glob lists first, torch_ok whether loading it succeeds
TradingPredictor(pool, models, any, torch_ok) ==
    LET pool_config == IF pool \in ConfigNames THEN [address |-> pool] ELSE EmptyDict
        pool_addr == Get(pool_config, "address", "")
        model_path == IF pool_addr \in models THEN pool_addr
                      ELSE IF models # {} THEN any ELSE "none"
    IN  [op |-> "TradingPredictor", raised |-> FALSE, error |-> "none",
         pool_config |-> pool_config,
         model |-> IF model_path # "none" /\ torch_ok THEN model_path ELSE "None",
         data_loader |-> pool]

----------------------------------------------------------------------------
(* Operations of the analysis, each called once on a fresh object *)

Thresholds == {10, 50, 100}

Called(result) ==
    /\ out.op = "none"
    /\ out' = result
    /\ UNCHANGED <<collector, pool_id, swap_dir, utcnow, days, history, learner>>

LoadSwaps ==
    Called([op |-> "load_swaps", swaps |-> load_swaps(swap_dir, utcnow, days)])

LoadSwapEvents ==
    Called([op |-> "load_swap_events", swaps |-> load_swap_events(swap_dir, utcnow, days)])

AnalyzeWallets ==
    LET swaps == load_swaps(swap_dir, utcnow, days)
    IN  Called([op |-> "analyze_wallet_activity", swaps |-> swaps,
                wallets |-> analyze_wallet_activity(swaps)])

IdentifyWhales ==
    \E threshold_pct \in Thresholds :
        LET wallet_activity == analyze_wallet_activity(load_swaps(swap_dir, utcnow, days))
        IN  Called([op |-> "identify_whales", wallet_activity |-> wallet_activity,
                    threshold_pct |-> threshold_pct,
                    whales |-> identify_whales(wallet_activity, threshold_pct)])

ComputeMetrics ==
    LET swaps == load_swaps(swap_dir, utcnow, days)
    IN  Called([op |-> "compute_order_flow_metrics", swaps |-> swaps,
                metrics |-> compute_order_flow_metrics(swaps)])

\* the wallet aggregation and the flow metrics of one list of swaps, as in
\* generate_report
WalletsAndMetrics ==
    LET swaps == load_swaps(swap_dir, utcnow, days)
    IN  Called([op |-> "wallets_and_metrics", swaps |-> swaps,
                wallets |-> analyze_wallet_activity(swaps),
                metrics |-> compute_order_flow_metrics(swaps)])

ComputeSwapVolume ==
    LET swaps == load_swap_events(swap_dir, utcnow, days)
    IN  Called([op |-> "compute_swap_volume", swaps |-> swaps,
                metrics |-> compute_swap_volume(swaps, utcnow, DayLen)])

DetectPatterns ==
    LET swaps == load_swaps(swap_dir, utcnow, days)
    IN  Called([op |-> "detect_accumulation_distribution", swaps |-> swaps,
                patterns |-> detect_accumulation_distribution(swaps, DayLen)])

GenerateReport ==
    Called([op |-> "generate_report", raised |-> FALSE,
            swaps |-> load_swaps(swap_dir, utcnow, days),
            report |-> generate_report(pool_id, swap_dir, utcnow, days)])

NewDataCollector == Called(DataCollector(pool_id))

NewTradingPredictor ==
    \E models \in SUBSET ModelFiles, torch_ok \in BOOLEAN :
        \E any \in (IF models = {} THEN {"none"} ELSE models) :
            Called(TradingPredictor(pool_id, models, any, torch_ok))

InitAnalysis ==
    /\ last_block_file = << >>
    /\ swap_files = [p \in Pools |-> << >>]
    /\ call = NoCall
    /\ dpc = "idle" /\ todo = << >> /\ attempted = << >>
    /\ ppc = [p \in Pools |-> "idle"]
    /\ plocal = [p \in Pools |-> NoCall]
    /\ utcnow = Clock
    /\ out = [op |-> "none"]
    /\ scanned = << >>
    /\ normalizer = NoObject /\ path = NoObject /\ restored = NoObject /\ seen = << >>
    /\ (InitLoad \/ InitFlow \/ InitPattern \/ InitTrend \/ InitNoDir)

NextAnalysis ==
    \/ LoadSwaps \/ LoadSwapEvents
    \/ AnalyzeWallets \/ IdentifyWhales
    \/ ComputeMetrics \/ WalletsAndMetrics \/ ComputeSwapVolume \/ DetectPatterns
    \/ GenerateReport
    \/ NewDataCollector \/ NewTradingPredictor

SpecAnalysis == InitAnalysis /\ [][NextAnalysis]_vars

----------------------------------------------------------------------------
(* Properties of the loaders *)

\* the stored lines, file by file
Stored == IF swap_dir.exists THEN FileLines(swap_dir) ELSE << >>

Occurrences(s, v) == Cardinality({i \in 1..Len(s) : s[i] = v})

\* a stored datetime d is strictly later than the instant c
LaterThan(d, c) ==
    \/ d.day > IsoFormat(c).day
    \/ d.day = IsoFormat(c).day /\ d.tod > IsoFormat(c).tod

InWindow(line) == line.json /\ LaterThan(line.datetime, utcnow - days * DayLen)

\* C12: load_swaps(days) returns exactly the well-formed stored records whose
\* datetime is strictly later than now - days, each as often as it is stored,
\* in non-decreasing timestamp order, whatever their order on disk.
C12_WindowSorted ==
    out.op = "load_swaps" =>
        /\ \A i \in 1..Len(out.swaps) : InWindow(out.swaps[i])
        /\ \A i \in 1..Len(Stored) :
              InWindow(Stored[i]) =>
                  Occurrences(out.swaps, Stored[i]) = Occurrences(Stored, Stored[i])
        /\ \A i, j \in 1..Len(out.swaps) :
              i < j => out.swaps[i].timestamp <= out.swaps[j].timestamp

\* a later event is stored before an earlier one, an event lies exactly on
\* the cutoff, and both in-window events come back
C12_Witness ==
    /\ out.op = "load_swaps"
    /\ Len(out.swaps) >= 2
    /\ \E i, j \in 1..Len(Stored) :
          /\ i < j /\ InWindow(Stored[i]) /\ InWindow(Stored[j])
          /\ Stored[i].timestamp > Stored[j].timestamp
    /\ \E i \in 1..Len(Stored) :
          Stored[i].json /\ Stored[i].timestamp = utcnow - days * DayLen

\* C13: a stored line that fails to decode is skipped on its own in both
\* loaders: every valid in-window record of every file, before or after the
\* damaged line, is still returned, and nothing else is.
C13_DamagedLineSkipped ==
    (/\ out.op \in {"load_swaps", "load_swap_events"}
     /\ \E i \in 1..Len(Stored) : ~Stored[i].json) =>
        /\ \A i \in 1..Len(out.swaps) : out.swaps[i].json
        /\ \A i \in 1..Len(Stored) :
              InWindow(Stored[i]) =>
                  Occurrences(out.swaps, Stored[i]) = Occurrences(Stored, Stored[i])

\* a damaged line stands before a valid in-window record of the same file and
\* in a file read before another one that holds a valid record
C13_Witness ==
    /\ out.op \in {"load_swaps", "load_swap_events"}
    /\ \E i, j, k \in 1..Len(swap_dir.lines) :
          /\ i < j
          /\ ~swap_dir.lines[i].line.json
          /\ swap_dir.lines[j].date = swap_dir.lines[i].date
          /\ InWindow(swap_dir.lines[j].line)
          /\ swap_dir.lines[k].date > swap_dir.lines[i].date
          /\ InWindow(swap_dir.lines[k].line)
    /\ Len(out.swaps) = 2

----------------------------------------------------------------------------
(* Properties of the constructors and of the analysis *)

\* C11: an operation given a pool identifier that the configuration does not
\* name fails with an error surfaced to the caller, for the construction of a
\* collector, an analyzer's report and the construction of a predictor alike.
C11_UnknownPoolFails ==
    (/\ pool_id \notin ConfigNames
     /\ out.op \in {"DataCollector", "generate_report", "TradingPredictor"}) =>
        out.raised

\* the events of the window, from the stored lines and not from the loader
NoneInWindow == \A i \in 1..Len(Stored) : ~InWindow(Stored[i])

\* C14: with no event in the window generate_report returns the explicit
\* no-data value instead of raising or reporting, and
\* compute_order_flow_metrics and detect_accumulation_distribution return an
\* empty result on an empty event list.
C14_NoDataValue ==
    /\ (out.op = "generate_report" /\ NoneInWindow) =>
           ~out.raised /\ out.report = [error |-> "No swap data available"]
    /\ (out.op = "compute_order_flow_metrics" /\ NoneInWindow) =>
           DOMAIN out.metrics = {}
    /\ (out.op = "detect_accumulation_distribution" /\ NoneInWindow) =>
           DOMAIN out.patterns = {}

\* the directory holds records, all of them out of the window, and the report
\* is the no-data value
C14_Witness ==
    /\ out.op = "generate_report"
    /\ \E i \in 1..Len(Stored) : Stored[i].json
    /\ NoneInWindow
    /\ "error" \in DOMAIN out.report

\* the sum of val over the swaps that keep selects
Total(swaps, keep(_), val(_)) ==
    Sum([i \in 1..Len(swaps) |-> IF keep(swaps[i]) THEN val(swaps[i]) ELSE 0])

\* C15: analyze_wallet_activity groups the events by recipient: there is one
\* entry per recipient, its buy_count + sell_count is the number of its
\* events, an event is a buy iff amount0 < 0, the volumes are the sums of the
\* absolute amounts per side, and net_token0 and net_token1 are the negated
\* sums of amount0 and amount1.
C15_WalletAggregation ==
    out.op = "analyze_wallet_activity" =>
        /\ {out.wallets[k].address : k \in 1..Len(out.wallets)}
               = {out.swaps[i].recipient : i \in 1..Len(out.swaps)}
        /\ \A k, l \in 1..Len(out.wallets) :
               out.wallets[k].address = out.wallets[l].address => k = l
        /\ \A k \in 1..Len(out.wallets) :
               LET w == out.wallets[k]
                   Own(s) == s.recipient = w.address
                   Buy(s) == Own(s) /\ s.amount0 < 0
                   Sell(s) == Own(s) /\ ~(s.amount0 < 0)
               IN  /\ w.buy_count + w.sell_count = Total(out.swaps, Own, LAMBDA s : 1)
                   /\ w.buy_count = Total(out.swaps, Buy, LAMBDA s : 1)
                   /\ w.buy_volume_token0 = Total(out.swaps, Buy, LAMBDA s : Abs(s.amount0))
                   /\ w.sell_volume_token0 = Total(out.swaps, Sell, LAMBDA s : Abs(s.amount0))
                   /\ w.buy_volume_token1 = Total(out.swaps, Buy, LAMBDA s : Abs(s.amount1))
                   /\ w.sell_volume_token1 = Total(out.swaps, Sell, LAMBDA s : Abs(s.amount1))
                   /\ w.net_token0 = -Total(out.swaps, Own, LAMBDA s : s.amount0)
                   /\ w.net_token1 = -Total(out.swaps, Own, LAMBDA s : s.amount1)

\* a wallet that both bought and sold, next to another wallet, and a swap of
\* amount 0
C15_Witness ==
    /\ out.op = "analyze_wallet_activity"
    /\ Len(out.wallets) >= 2
    /\ \E k \in 1..Len(out.wallets) :
          out.wallets[k].buy_count >= 1 /\ out.wallets[k].sell_count >= 1
    /\ \E i \in 1..Len(out.swaps) : out.swaps[i].amount0 = 0

\* C16: for N >= 1 wallets and a threshold pct of at most 100,
\* identify_whales returns exactly max(1, floor(N * pct / 100)) wallets, in
\* descending order of total token0 volume (buy + sell), and no wallet left
\* out has a larger volume than a returned one.
C16_WhaleCount ==
    (out.op = "identify_whales" /\ Len(out.wallet_activity) >= 1) =>
        LET N == Len(out.wallet_activity)
            floor == CHOOSE k \in 0..N : k * 100 <= N * out.threshold_pct
                                         /\ N * out.threshold_pct < (k + 1) * 100
            returned == {out.whales[i].address : i \in 1..Len(out.whales)}
            Volume(w) == w.buy_volume_token0 + w.sell_volume_token0
        IN  /\ Len(out.whales) = (IF floor >= 1 THEN floor ELSE 1)
            /\ Cardinality(returned) = Len(out.whales)
            /\ \A i \in 1..Len(out.whales) :
                  \E k \in 1..N :
                      /\ out.wallet_activity[k].address = out.whales[i].address
                      /\ Volume(out.wallet_activity[k]) = out.whales[i].total_volume
            /\ \A i, j \in 1..Len(out.whales) :
                  i < j => out.whales[i].total_volume >= out.whales[j].total_volume
            /\ \A k \in 1..N :
                  out.wallet_activity[k].address \notin returned =>
                      \A i \in 1..Len(out.whales) :
                          Volume(out.wallet_activity[k]) <= out.whales[i].total_volume

\* three wallets of different volumes, the largest not the first seen, and a
\* threshold of one half: one whale
C16_Witness ==
    /\ out.op = "identify_whales"
    /\ Len(out.wallet_activity) = 3
    /\ out.threshold_pct = 50
    /\ Len(out.whales) = 1
    /\ out.whales[1].address # out.wallet_activity[1].address
    /\ \A k \in 1..3 :
          out.wallet_activity[k].address # out.whales[1].address =>
              TotalVolume(out.wallet_activity[k]) < out.whales[1].total_volume

IsSale(s) == ~(s.amount0 < 0)

IsPurchase(s) == s.amount0 < 0

Volume0(s) == IF s.amount0 < 0 THEN -s.amount0 ELSE s.amount0

\* C17: the order-flow imbalance (buy - sell) / (buy + sell) of every event
\* list lies in [-1, 1] and is 0 when the total token0 volume is 0, in the
\* analyzer's metrics (to the thousandth) and in the loader's swap volume.
C17_ImbalanceBounded ==
    /\ (out.op = "compute_order_flow_metrics" /\ out.swaps # << >>) =>
           LET buy == Total(out.swaps, IsPurchase, Volume0)
               sell == Total(out.swaps, IsSale, Volume0)
               ofi == out.metrics.order_flow_imbalance
           IN  /\ -1000 <= ofi /\ ofi <= 1000
               /\ buy + sell = 0 => ofi = 0
               /\ buy + sell > 0 =>
                      2 * Abs(1000 * (buy - sell) - ofi * (buy + sell)) <= buy + sell
    /\ out.op = "compute_swap_volume" =>
           LET ofi == out.metrics.order_flow_imbalance
               buy == out.metrics.buy_volume
               sell == out.metrics.sell_volume
           IN  /\ ofi.den > 0
               /\ -ofi.den <= ofi.num /\ ofi.num <= ofi.den
               /\ buy + sell = 0 => ofi.num = 0
               /\ buy + sell > 0 => ofi.num * (buy + sell) = (buy - sell) * ofi.den

\* events whose token0 volume is 0 altogether
C17_Witness ==
    /\ out.op = "compute_order_flow_metrics"
    /\ out.swaps # << >>
    /\ Total(out.swaps, LAMBDA s : TRUE, Volume0) = 0
    /\ out.metrics.order_flow_imbalance = 0

OfDay(swaps, d) == SelectSeq(swaps, LAMBDA s : s.timestamp \div DayLen = d)

\* C19: each time bucket gets exactly one label, by this precedence and with
\* strict comparisons: ACCUMULATION if buyVol > 1.5 x sellVol and buyCount >
\* sellCount; else DISTRIBUTION if sellVol > 1.5 x buyVol and sellCount >
\* buyCount; else RETAIL_BUYING if buyCount > 2 x sellCount; else
\* RETAIL_SELLING if sellCount > 2 x buyCount; else MIXED.
C19_PatternPrecedence ==
    (out.op = "detect_accumulation_distribution" /\ out.swaps # << >>) =>
        LET windows == out.patterns.windows
        IN  /\ {windows[k].window.day : k \in 1..Len(windows)}
                   = {out.swaps[i].timestamp \div DayLen : i \in 1..Len(out.swaps)}
            /\ \A k, l \in 1..Len(windows) : windows[k].window = windows[l].window => k = l
            /\ \A k \in 1..Len(windows) :
                   LET bucket == OfDay(out.swaps, windows[k].window.day)
                       buyVol == Total(bucket, IsPurchase, Volume0)
                       sellVol == Total(bucket, IsSale, Volume0)
                       buyCount == Total(bucket, IsPurchase, LAMBDA s : 1)
                       sellCount == Total(bucket, IsSale, LAMBDA s : 1)
                       acc == 10 * buyVol > 15 * sellVol /\ buyCount > sellCount
                       dis == 10 * sellVol > 15 * buyVol /\ sellCount > buyCount
                       rb == buyCount > 2 * sellCount
                       rs == sellCount > 2 * buyCount
                   IN  windows[k].pattern =
                           (IF acc THEN "ACCUMULATION"
                            ELSE IF dis THEN "DISTRIBUTION"
                            ELSE IF rb THEN "RETAIL_BUYING"
                            ELSE IF rs THEN "RETAIL_SELLING"
                            ELSE "MIXED")

\* the bucket of the example: 150 bought in 5 swaps, 100 sold in 3, MIXED
C19_Witness ==
    /\ out.op = "detect_accumulation_distribution"
    /\ out.swaps # << >>
    /\ \E k \in 1..Len(out.patterns.windows) :
          LET w == out.patterns.windows[k]
          IN  /\ w.buy_volume = 150 /\ w.sell_volume = 100
              /\ w.buy_count = 5 /\ w.sell_count = 3
              /\ w.pattern = "MIXED"

\* C20: the report's confidence is HIGH iff |OFI| > 0.3, MEDIUM iff
\* 0.15 < |OFI| <= 0.3 and LOW otherwise, OFI being the order-flow imbalance
\* (buy - sell) / (buy + sell) of the analysed window, the value that decides
\* market_direction.
C20_ConfidenceByImbalance ==
    (out.op = "generate_report" /\ out.swaps # << >>) =>
        LET buy == Total(out.swaps, IsPurchase, Volume0)
            sell == Total(out.swaps, IsSale, Volume0)
            high == 10 * Abs(buy - sell) > 3 * (buy + sell)
            medium == 100 * Abs(buy - sell) > 15 * (buy + sell) /\ ~high
        IN  out.report.prediction.confidence =
                (IF high THEN "HIGH" ELSE IF medium THEN "MEDIUM" ELSE "LOW")

----------------------------------------------------------------------------
(* Further properties of the collector *)

\* the blocks of one query
QueryBlocks(q) == q.start .. q.end

\* C24: get_swaps splits [from_block, head] into consecutive sub-ranges of at
\* most BATCH_SIZE blocks: every block of the range lies in exactly one
\* queried sub-range and no queried block lies outside the range.
C24_BatchesPartition ==
    (call.pool \in Pools /\ call.saved) =>
        /\ \A b \in call.from_block .. call.current_block :
              Cardinality({i \in 1..Len(call.queries) : b \in QueryBlocks(call.queries[i])}) = 1
        /\ \A i \in 1..Len(call.queries) :
              /\ call.queries[i].start <= call.queries[i].end
              /\ call.queries[i].end - call.queries[i].start + 1 <= BATCH_SIZE
              /\ QueryBlocks(call.queries[i]) \subseteq call.from_block .. call.current_block
        /\ \A i \in 1..(Len(call.queries) - 1) :
              call.queries[i + 1].start = call.queries[i].end + 1

\* a range of two full sub-ranges and a last one of a single block
C24_Witness ==
    /\ call.pool \in Pools /\ call.saved
    /\ Len(call.queries) = 3
    /\ call.queries[1].end - call.queries[1].start + 1 = BATCH_SIZE
    /\ call.queries[3].start = call.queries[3].end
    /\ call.queries[3].end = call.current_block

\* the query q covers the block b
Covers(q, b) == q.start <= b /\ b <= q.end

\* C23: once a sub-range was skipped because its query failed, no later call
\* on that pool queries a block of it again, and no event of it is in the
\* pool's files unless an answered query covered its block.
C23_SkippedNeverRescanned ==
    /\ \A i, j \in 1..Len(scanned) :
          (i < j /\ ~scanned[i].ok) =>
              \A b \in QueryBlocks(scanned[i]) : ~Covers(scanned[j], b)
    /\ \A l \in ChainLogs :
          (/\ l.address = Watched
           /\ \E i \in 1..Len(scanned) :
                 ~scanned[i].ok /\ Covers(scanned[i], l.blockNumber)) =>
              \A k \in 1..Len(swap_files[Watched]) :
                  LineKey(swap_files[Watched][k]) # <<l.transactionHash, l.logIndex>>

\* the query of a sub-range that holds an event failed, a later call on the
\* pool scanned on and stored a later event
C23_Witness ==
    \E i, j \in 1..Len(scanned) :
        /\ i < j /\ ~scanned[i].ok /\ scanned[j].ok
        /\ call.pool = Watched /\ call.had_checkpoint /\ call.queries # << >>
        /\ scanned[j].start > call.last_block
        /\ \E l \in ChainLogs : l.address = Watched /\ Covers(scanned[i], l.blockNumber)
        /\ swap_files[Watched] # << >>

\* C25: when no query failed, the ranges scanned by the successive calls on a
\* pool are disjoint and leave no gap: every block from the first call's
\* from_block up to the checkpoint was queried exactly once, and none beyond.
C25_ScansContiguous ==
    (/\ scanned # << >>
     /\ \A i \in 1..Len(scanned) : scanned[i].ok) =>
        /\ \A b \in scanned[1].start .. Checkpoint(Watched) :
              Cardinality({i \in 1..Len(scanned) : Covers(scanned[i], b)}) = 1
        /\ \A i \in 1..Len(scanned) :
              /\ scanned[i].start >= scanned[1].start
              /\ scanned[i].end <= Checkpoint(Watched)

\* three calls scanned the pool one after the other, each a range shorter
\* than a batch or a batch long, and all its events are stored
C25_Witness ==
    /\ \A i \in 1..Len(scanned) : scanned[i].ok
    /\ Len(scanned) = 3
    /\ scanned[1].end - scanned[1].start + 1 < BATCH_SIZE
    /\ scanned[2].end - scanned[2].start + 1 < BATCH_SIZE
    /\ call.pool = Watched /\ Checkpoint(Watched) = call.current_block
    /\ Len(swap_files[Watched]) = Cardinality({l \in ChainLogs : l.address = Watched})

\* C26: a call terminated after it appended its events and before it saved
\* the checkpoint leaves nothing behind that the next call appends again:
\* between calls every stored event lies at or below the checkpoint, and no
\* event is stored twice.
C26_AppendWithCheckpoint ==
    ppc[Watched] = "idle" =>
        /\ \A k \in 1..Len(swap_files[Watched]) :
              swap_files[Watched][k].swap.block <= Checkpoint(Watched)
        /\ \A i, j \in 1..Len(swap_files[Watched]) :
              i # j => LineKey(swap_files[Watched][i]) # LineKey(swap_files[Watched][j])

----------------------------------------------------------------------------
(* Further properties of the analysis *)

\* the hours of the swaps, ascending, as instants
RECURSIVE Ascending(_)
Ascending(S) ==
    IF S = {} THEN << >>
    ELSE LET m == CHOOSE x \in S : \A y \in S : x <= y
         IN  <<m>> \o Ascending(S \ {m})

Buckets(swaps) == Ascending({swaps[i].timestamp : i \in 1..Len(swaps)})

\* buy - sell of the swaps of the buckets bs[from..to]
NetOf(swaps, bs, from, to) ==
    Total(swaps, LAMBDA s : \E k \in from..to : bs[k] = s.timestamp,
                 LAMBDA s : -s.amount0)

\* the thousandths of (recent - older) / |older| for a recent part of r buckets
TrendOfSplit(swaps, r) ==
    LET bs == Buckets(swaps)
        n == Len(bs)
        recent == NetOf(swaps, bs, n - r + 1, n)
        older == NetOf(swaps, bs, 1, n - r)
    IN  IF older # 0 THEN Round3(Fraction(recent - older, Abs(older)))
        ELSE IF recent > 0 THEN 1000 ELSE IF recent < 0 THEN -1000 ELSE 0

\* C27 as stated: the recent part is the 6 most recent buckets, or the most
\* recent half when fewer than 12 buckets exist, the older part is all
\* preceding buckets, and the trend compares the two.
C27_RecentHalfBelowTwelve ==
    (out.op = "compute_order_flow_metrics" /\ Len(Buckets(out.swaps)) >= 2) =>
        LET n == Len(Buckets(out.swaps))
        IN  out.metrics.trend_change =
                TrendOfSplit(out.swaps, IF n < 12 THEN (n + 1) \div 2 ELSE 6)

\* C27, amended: the recent part is the 6 most recent buckets, or the most
\* recent half (the larger half of an odd number) when fewer than 6 buckets
\* exist; the older part is all preceding buckets, so that the two parts
\* cover every bucket exactly once, and the trend compares the two.
C27_RecentHalfBelowSix ==
    (out.op = "compute_order_flow_metrics" /\ Len(Buckets(out.swaps)) >= 2) =>
        LET n == Len(Buckets(out.swaps))
        IN  out.metrics.trend_change =
                TrendOfSplit(out.swaps, IF n < 6 THEN (n + 1) \div 2 ELSE 6)

\* eight buckets: six recent against the two before them
C27_Witness ==
    /\ out.op = "compute_order_flow_metrics"
    /\ Len(Buckets(out.swaps)) = 8
    /\ out.metrics.trend_change = TrendOfSplit(out.swaps, 6)
    /\ out.metrics.trend_change # TrendOfSplit(out.swaps, 4)

\* C28: the reported buy_sell_ratio is capped at 999: it never exceeds 999,
\* whatever the event list.
C28_RatioCapped ==
    (out.op = "compute_order_flow_metrics" /\ out.swaps # << >>) =>
        out.metrics.buy_sell_ratio <= 999 * 1000

\* C29: over one event list, every wallet has net_token0 = buy_volume_token0 -
\* sell_volume_token0, and the wallets' net_token0 add up to the metrics'
\* net_flow = total_buy_volume - total_sell_volume.
C29_WalletsMatchFlow ==
    (out.op = "wallets_and_metrics" /\ out.swaps # << >>) =>
        /\ \A k \in 1..Len(out.wallets) :
              out.wallets[k].net_token0 =
                  out.wallets[k].buy_volume_token0 - out.wallets[k].sell_volume_token0
        /\ Sum([k \in 1..Len(out.wallets) |-> out.wallets[k].net_token0])
               = out.metrics.net_flow
        /\ out.metrics.net_flow
               = out.metrics.total_buy_volume - out.metrics.total_sell_volume

\* three wallets, buyers and sellers among them, and a swap of amount 0
C29_Witness ==
    /\ out.op = "wallets_and_metrics"
    /\ Len(out.wallets) = 3
    /\ out.metrics.total_buy_volume > 0
    /\ out.metrics.total_sell_volume > 0
    /\ out.metrics.net_flow # 0
    /\ \E i \in 1..Len(out.swaps) : out.swaps[i].amount0 = 0

----------------------------------------------------------------------------
(* The state normalizer: state_normalizer.py.  Floats are taken as the exact
   rationals they stand for, kept in lowest terms. *)

RECURSIVE GCD(_, _)
GCD(a, b) == IF b = 0 THEN a ELSE GCD(b, a % b)

\* the rational num / den, den > 0
Rat(num, den) ==
    LET g == GCD(Abs(num), den)
    IN  [num |-> num \div g, den |-> den \div g]

RatAdd(x, y) == Rat(x.num * y.den + y.num * x.den, x.den * y.den)

RatSub(x, y) == Rat(x.num * y.den - y.num * x.den, x.den * y.den)

RatMul(x, y) == Rat(x.num * y.num, x.den * y.den)

\* x / n for a whole n > 0
RatOver(x, n) == Rat(x.num, x.den * n)

\* np.clip(x, -clip_range, clip_range) for a whole clip_range
clip(x, clip_range) ==
    IF x.num \div x.den > clip_range \/ (x.num \div x.den = clip_range /\ x.num % x.den > 0)
    THEN Rat(clip_range, 1)
    ELSE IF x.num \div x.den < -clip_range THEN Rat(-clip_range, 1)
    ELSE x

\* an ndarray of float64 and its conversions
array(list) == [dtype |-> "float64", data |-> list]

tolist(a) == a.data

zeros(n) == array([i \in 1..n |-> Rat(0, 1)])

ones(n) == array([i \in 1..n |-> Rat(1, 1)])

\* StateNormalizer(state_dim, clip_range)
StateNormalizer(state_dim, clip_range) ==
    [state_dim |-> state_dim, clip_range |-> clip_range,
     mean |-> zeros(state_dim), var |-> ones(state_dim), count |-> 0,
     feature_ranges |-> "_default_ranges"]

\* the ranges list of normalize_by_range; a slot's low and high are counted in
\* units of 10^exp, which leaves 2 * (x - low) / (high - low) as it is
Range(low, high, exp) == [low |-> low, high |-> high, exp |-> exp]

ranges ==
    << Range(1, 10000000, -4),          \* price (0.0001, 1000)
       Range(1, 1000000000, 3),         \* liquidity (1e3, 1e12)
       Range(0, 1000000000, 11),        \* fee_growth_0 (0, 1e20)
       Range(0, 1000000000, 11),        \* fee_growth_1
       Range(0, 1000000000, 0),         \* volume_24h (0, 1e9)
       Range(0, 10000000, 0),           \* fees_24h (0, 1e7)
       Range(0, 1, 0),                  \* volatility
       Range(-1, 1, 0),                 \* trend
       Range(-900000, 900000, 0),       \* tick
       Range(-900000, 900000, 0),       \* tick_lower
       Range(-900000, 900000, 0),       \* tick_upper
       Range(0, 5, -1),                 \* vol_1h (0, 0.5)
       Range(0, 1, 0),                  \* vol_24h
       Range(0, 2, 0),                  \* implied_vol
       Range(-1, 1, 0),                 \* volume_trend
       Range(0, 10, 0),                 \* liq_depth
       Range(0, 100, 0),                \* arb_opps
       Range(-1, 1, 0),                 \* corr_btc
       Range(-1, 1, 0),                 \* corr_eth
       Range(-900000, 900000, 0),       \* pos_tick_lower
       Range(-900000, 900000, 0),       \* pos_tick_upper
       Range(0, 1000000000, 3),         \* pos_liquidity (0, 1e12)
       Range(0, 1000000000, 0),         \* amount0 (0, 1e9)
       Range(0, 1000000000, 0),         \* amount1
       Range(0, 1000000000, 0),         \* pos_value
       Range(-1, 1, 0),                 \* il
       Range(0, 1000000, 0),            \* fees_earned (0, 1e6)
       Range(0, 1, 0),                  \* in_range
       Range(0, 1000000000, 0),         \* portfolio_value
       Range(0, 1000000000, 0),         \* balance_0
       Range(0, 1000000000, 0),         \* balance_1
       Range(0, 1000000, 0),            \* total_fees
       Range(-1000000, 1000000, 0),     \* total_il
       Range(-5, 5, 0),                 \* sharpe
       Range(0, 1, 0) >>                \* max_dd

\* the loop body for one slot: the value before it is clipped
InRange_NoOffset(x, low, high) ==
    IF high > low THEN Rat(2 * (x - low), high - low) ELSE Rat(0, 1)

InRange(x, low, high) ==
    IF high > low THEN Rat(2 * (x - low) - (high - low), high - low) ELSE Rat(0, 1)

\* slots past the end of ranges keep the 0 of np.zeros_like
normalize_by_range(self, state) ==
    [i \in 1..Len(state) |->
        IF i <= Len(ranges)
        THEN clip(InRange(state[i], ranges[i].low, ranges[i].high), self.clip_range)
        ELSE Rat(0, 1)]

\* update(state): one step of the running mean and of the sum of squares
update(self, state) ==
    LET count == self.count + 1
        mean == [i \in 1..self.state_dim |->
                    LET delta == RatSub(Rat(state[i], 1), self.mean.data[i])
                    IN  RatAdd(self.mean.data[i], RatOver(delta, count))]
        var == [i \in 1..self.state_dim |->
                    LET delta == RatSub(Rat(state[i], 1), self.mean.data[i])
                        delta2 == RatSub(Rat(state[i], 1), mean[i])
                    IN  RatAdd(self.var.data[i], RatMul(delta, delta2))]
    IN  [self EXCEPT !.count = count, !.mean.data = mean, !.var.data = var]

\* 1 / 1e-8, the term under the root of normalize_running
EPS_INV == 100000000

\* (x - mean) / sqrt(variance + 1e-8), clipped: the bound it was clipped to,
\* or else the difference and the variance that make it up
Standardized(x, mean, variance, clip_range) ==
    LET d == RatSub(Rat(x, 1), mean)
        \* d^2 - clip_range^2 * variance, to compare with clip_range^2 * 1e-8
        excess == RatSub(RatMul(d, d), RatMul(Rat(clip_range * clip_range, 1), variance))
    IN  IF excess.num > (clip_range * clip_range * excess.den) \div EPS_INV
        THEN [clipped |-> TRUE, value |-> IF d.num > 0 THEN clip_range ELSE -clip_range]
        ELSE [clipped |-> FALSE, over |-> d, variance |-> variance]

normalize_running(self, state) ==
    IF self.count < 2 THEN [raw |-> TRUE, values |-> state]
    ELSE [raw |-> FALSE,
          values |-> [i \in 1..Len(state) |->
                         Standardized(state[i], self.mean.data[i],
                                      RatOver(self.var.data[i], self.count - 1),
                                      self.clip_range)]]

\* save(path): the JSON object written
save(self) ==
    [state_dim |-> self.state_dim, clip_range |-> self.clip_range,
     mean |-> tolist(self.mean), var |-> tolist(self.var), count |-> self.count]

\* load(path): the fields taken from the JSON object
load_WithoutCount(self, data) ==
    [self EXCEPT !.state_dim = data.state_dim, !.clip_range = data.clip_range,
                 !.mean = array(data.mean), !.var = array(data.var)]

load(self, data) ==
    [self EXCEPT !.state_dim = data.state_dim, !.clip_range = data.clip_range,
                 !.mean = array(data.mean), !.var = array(data.var),
                 !.count = data.count]

(* Inputs of the normalizer *)

MaxSlots == 36       \* slots of a state vector handed to normalize_by_range
MaxUpdates == 3      \* update calls on one normalizer
Outlier == 20000000  \* how far outside its range a slot's value may lie

Dims == {1, 2}

ClipRanges == {1, 10}

\* what update is given, per slot
Observed == {-1, 2}

Observations(state_dim) == [1..state_dim -> Observed]

\* a slot's value by its place against the slot's range
Places == {"low", "high", "inside", "below", "above", "far_below", "far_above"}

Placed(i, place) ==
    IF i > Len(ranges) THEN Outlier
    ELSE LET r == ranges[i]
         IN  CASE place = "low" -> r.low
               [] place = "high" -> r.high
               [] place = "inside" -> r.low + 1
               [] place = "below" -> r.low - 1
               [] place = "above" -> r.high + 1
               [] place = "far_below" -> r.low - Outlier
               [] place = "far_above" -> r.high + Outlier

\* n slots: slot j as placed, the others at their high
RangeState(n, j, place) ==
    [i \in 1..n |-> Placed(i, IF i = j THEN place ELSE "high")]

(* Operations of the normalizer *)

InitNormalizer ==
    /\ last_block_file = << >>
    /\ swap_files = [p \in Pools |-> << >>]
    /\ call = NoCall
    /\ dpc = "idle" /\ todo = << >> /\ attempted = << >>
    /\ ppc = [p \in Pools |-> "idle"]
    /\ plocal = [p \in Pools |-> NoCall]
    /\ pool_id = "none" /\ swap_dir = << >> /\ utcnow = 0 /\ days = 0
    /\ out = [op |-> "none"]
    /\ scanned = << >>
    /\ \E state_dim \in Dims, clip_range \in ClipRanges :
          normalizer = StateNormalizer(state_dim, clip_range)
    /\ path = NoObject /\ restored = NoObject /\ seen = << >>

NormalizeByRange ==
    \E n \in 0..MaxSlots, j \in 1..MaxSlots, place \in Places :
        /\ out.op = "none"
        /\ j <= Max(n, 1)
        /\ out' = [op |-> "normalize_by_range", state |-> RangeState(n, j, place),
                   normalized |-> normalize_by_range(normalizer, RangeState(n, j, place))]
        /\ UNCHANGED <<collector, pool_id, swap_dir, utcnow, days, history, learner>>

NextRange == NormalizeByRange

SpecRange == InitNormalizer /\ [][NextRange]_vars

Update ==
    \E state \in Observations(normalizer.state_dim) :
        /\ normalizer.count < MaxUpdates
        /\ normalizer' = update(normalizer, state)
        /\ seen' = Append(seen, state)
        /\ out' = [op |-> "none"]
        /\ UNCHANGED <<collector, pool_id, swap_dir, utcnow, days, history, path, restored>>

NormalizeRunning ==
    \E state \in Observations(normalizer.state_dim) :
        /\ out' = [op |-> "normalize_running", state |-> state,
                   normalized |-> normalize_running(normalizer, state)]
        /\ UNCHANGED <<collector, pool_id, swap_dir, utcnow, days, history, learner>>

Save ==
    /\ path' = save(normalizer)
    /\ out' = [op |-> "none"]
    /\ UNCHANGED <<collector, pool_id, swap_dir, utcnow, days, history, normalizer, restored, seen>>

\* a fresh normalizer, of any dimension and bound, loads the file
Load ==
    \E state_dim \in Dims, clip_range \in ClipRanges :
        /\ path # NoObject
        /\ restored' = load(StateNormalizer(state_dim, clip_range), path)
        /\ out' = [op |-> "none"]
        /\ UNCHANGED <<collector, pool_id, swap_dir, utcnow, days, history, normalizer, path, seen>>

NextRunning == Update \/ NormalizeRunning \/ Save \/ Load

SpecRunning == InitNormalizer /\ [][NextRunning]_vars

----------------------------------------------------------------------------
(* Properties of the normalizer *)

\* -bound <= x <= bound for a whole bound, by the whole part of x
Within(x, bound) ==
    /\ x.num \div x.den >= -bound
    /\ \/ x.num \div x.den < bound
       \/ x.num \div x.den = bound /\ x.num % x.den = 0

\* C21: normalize_by_range maps every slot into [-clip_range, clip_range]; a
\* value at the slot's low maps to -1 and one at its high to +1 before the
\* clipping, and a slot whose high equals its low would yield 0.
C21_RangeNormalized ==
    out.op = "normalize_by_range" =>
        LET c == normalizer.clip_range
        IN  /\ Len(out.normalized) = Len(out.state)
            /\ \A i \in 1..Len(out.state) :
                  Within(out.normalized[i], c)
            /\ \A i \in 1..Min(Len(out.state), Len(ranges)) :
                  /\ out.state[i] = ranges[i].low => out.normalized[i] = clip(Rat(-1, 1), c)
                  /\ out.state[i] = ranges[i].high => out.normalized[i] = clip(Rat(1, 1), c)
                  /\ clip(InRange(out.state[i], ranges[i].low, ranges[i].low), c) = Rat(0, 1)

\* all 35 slots and one more: one at its low, the others at their high, under
\* a bound that leaves -1 and +1 as they are
C21_Witness ==
    /\ out.op = "normalize_by_range"
    /\ Len(out.state) = Len(ranges) + 1
    /\ normalizer.clip_range > 1
    /\ \E i \in 1..Len(ranges) :
          out.state[i] = ranges[i].low /\ out.normalized[i] = Rat(-1, 1)
    /\ \E i \in 1..Len(ranges) :
          out.state[i] = ranges[i].high /\ out.normalized[i] = Rat(1, 1)

\* C22: loading what save wrote after any updates into a fresh normalizer
\* restores state_dim, clip_range, count, mean and var, and normalize_running
\* gives the same output for every input as before the save.  Checked at
\* every load of a file that holds the save of the normalizer as it is.
C22_SaveLoadRestores ==
    [][(restored' # restored /\ path = save(normalizer)) =>
          /\ restored'.state_dim = normalizer.state_dim
          /\ restored'.clip_range = normalizer.clip_range
          /\ restored'.count = normalizer.count
          /\ restored'.mean = normalizer.mean
          /\ restored'.var = normalizer.var
          /\ \A state \in Observations(normalizer.state_dim) :
                normalize_running(restored', state) = normalize_running(normalizer, state)]_vars

\* three updates saved and loaded, and an input that is not clipped
C22_Witness ==
    /\ restored # NoObject
    /\ path = save(normalizer)
    /\ restored.count = 3
    /\ \E state \in Observations(normalizer.state_dim) :
          LET r == normalize_running(restored, state)
          IN  ~r.raw /\ \E i \in 1..Len(state) : ~r.values[i].clipped

\* the observations of slot i
Slot(i) == [k \in 1..Len(seen) |-> seen[k][i]]

Squares(s) == [k \in 1..Len(s) |-> s[k] * s[k]]

\* C30: after n >= 2 updates on a fresh normalizer, count = n, mean is the
\* arithmetic mean of the observations and var / (n - 1) their sample
\* variance; with fewer than 2 observations normalize_running returns its
\* input unchanged.
C30_Welford ==
    LET n == Len(seen)
    IN  /\ n >= 2 =>
              /\ normalizer.count = n
              /\ \A i \in 1..normalizer.state_dim :
                    /\ normalizer.mean.data[i] = Rat(Sum(Slot(i)), n)
                    /\ RatOver(normalizer.var.data[i], n - 1)
                           = Rat(n * Sum(Squares(Slot(i))) - Sum(Slot(i)) * Sum(Slot(i)),
                                 n * (n - 1))
        /\ (n < 2 /\ out.op = "normalize_running") =>
              out.normalized = [raw |-> TRUE, values |-> out.state]

====
